---- MODULE Spec2Model ----
(***************************************************************************)
(* Model of the database connection manager of src/lib.rs: the global     *)
(* DATABASE once-cell, the async init() entry point, the construction      *)
(* sequence Database::init and the accessors reader(), writer(), url().    *)
(*                                                                         *)
(* Tasks are the concurrent callers of the public functions.  A panic      *)
(* unwinds the calling task only: the task is dead afterwards, the other   *)
(* tasks may go on (a process that terminates on the panic is the special  *)
(* case in which they take no further step).  A connection attempt         *)
(* succeeds or fails nondeterministically.  The environment is read by     *)
(* the code and never written, so it is fixed by Init.  A future returned  *)
(* by init() is polled until it completes or panics; it is never dropped   *)
(* half-way by its caller.                                                 *)
(***************************************************************************)
EXTENDS Integers, Sequences, FiniteSets, TLC

\* ---------------------------------------------------------------- bounds
NumTasks == 2
MaxCalls == 2
NumUrls == 2

Tasks == 1..NumTasks
Urls == 1..NumUrls

\* ------------------------------------------------------------- constants
\* String::default(), the empty string (URL strings are numbered from 1)
EmptyString == 0
\* a pool local that is not bound yet (pools are numbered from 1)
NoPool == 0
\* no task holds the cell's initialization
NoTask == 0

EnvNames == {"DATABASE_URL", "DATABASE_WRITE_URL", "DATABASE_READ_URL"}
\* env::var(name): Ok(string) or Err
EnvResults == {[ok |-> FALSE, val |-> EmptyString]} \cup {[ok |-> TRUE, val |-> u] : u \in Urls}

ConfigError == "Unable to connect to the database"
ConnectionError == "Invalid database connection string"
NotInitialized == "Database not initialized"
NoError == ""

VARIABLES
    env,            \* the process environment: name -> result of env::var
    cell,           \* DATABASE: the published manager, or None
    initializer,    \* the task whose init future the cell is running, or NoTask
    pc,             \* each task's position
    err,            \* the panic message of a panicked task
    frame,          \* the locals of Database::init in each task
    calls,          \* number of public calls each task has made
    pools,          \* the pools opened so far: pool id -> URL it is connected against
    connects,       \* log of connection attempts
    constructions,  \* number of construction sequences started
    publishedCid,   \* the construction sequence whose result the cell holds, or 0
    observed,       \* the cell contents seen by the init() calls that returned
    returned        \* accessor -> set of values it has returned

vars == <<env, cell, initializer, pc, err, frame, calls, pools, connects,
          constructions, publishedCid, observed, returned>>

\* ------------------------------------------------------------------ state
None == [set |-> FALSE, url |-> EmptyString, reader |-> NoPool, writer |-> NoPool]

\* Self { url, reader, writer } wrapped for publication
Manager(u, r, w) == [set |-> TRUE, url |-> u, reader |-> r, writer |-> w]

EmptyFrame ==
    [cid |-> 0, is_valid_connection |-> FALSE, writer_url |-> EmptyString,
     url |-> EmptyString, writer |-> NoPool, reader |-> NoPool]

Accessors == {"reader", "writer", "url"}

Init ==
    /\ env \in [EnvNames -> EnvResults]
    /\ cell = None
    /\ initializer = NoTask
    /\ pc = [t \in Tasks |-> "idle"]
    /\ err = [t \in Tasks |-> NoError]
    /\ frame = [t \in Tasks |-> EmptyFrame]
    /\ calls = [t \in Tasks |-> 0]
    /\ pools = <<>>
    /\ connects = <<>>
    /\ constructions = 0
    /\ publishedCid = 0
    /\ observed = {}
    /\ returned = [a \in Accessors |-> {}]

\* ---------------------------------------------------------- pure helpers
\* env::var(name)
EnvVar(name) == env[name]

\* faulty variant: DATABASE_URL wins over DATABASE_WRITE_URL
ResolveWriterMut ==
    LET w == EnvVar("DATABASE_WRITE_URL")
        d == EnvVar("DATABASE_URL")
    IN  IF d.ok THEN [is_valid_connection |-> TRUE, writer_url |-> d.val, url |-> d.val]
        ELSE IF w.ok THEN [is_valid_connection |-> TRUE, writer_url |-> w.val, url |-> w.val]
        ELSE [is_valid_connection |-> FALSE, writer_url |-> EmptyString, url |-> EmptyString]

\* lines 144-158: the locals after the two writer-side lookups, the second
\* overwriting the first
ResolveWriter ==
    LET s0 == [is_valid_connection |-> FALSE, writer_url |-> EmptyString, url |-> EmptyString]
        d == EnvVar("DATABASE_URL")
        s1 == IF d.ok
              THEN [is_valid_connection |-> TRUE, writer_url |-> d.val, url |-> d.val]
              ELSE s0
        w == EnvVar("DATABASE_WRITE_URL")
        s2 == IF w.ok
              THEN [is_valid_connection |-> TRUE, writer_url |-> w.val, url |-> w.val]
              ELSE s1
    IN  s2

\* faulty variant: DATABASE_READ_URL counts as a usable URL
ConfigInvalidMut(r) ==
    ~r.is_valid_connection /\ ~EnvVar("DATABASE_READ_URL").ok

\* line 160: the configuration check
ConfigInvalid(r) == ~r.is_valid_connection

\* faulty variant: the manager under construction is visible
DatabaseGetMut ==
    IF cell.set THEN cell
    ELSE IF initializer # NoTask /\ frame[initializer].writer # NoPool
         THEN Manager(frame[initializer].url, frame[initializer].reader,
                      frame[initializer].writer)
         ELSE None

\* DATABASE.get()
DatabaseGet == IF cell.set THEN cell ELSE None

\* faulty variant: no exclusion between init futures
CellFreeMut == TRUE

\* get_or_init: the cell runs at most one init future at a time
CellFree == initializer = NoTask

\* faulty variant: the stored value is not looked at
CellReadyMut == FALSE

\* get_or_init: the fast path taken when the cell already holds a value
CellReady == cell.set

\* faulty variant: a failed writer connection is swallowed like a reader's
WriterOutcomeMut(f, ok, pool) ==
    [panic |-> FALSE,
     frame |-> [f EXCEPT !.writer = IF ok THEN pool ELSE NoPool,
                         !.reader = IF ok THEN pool ELSE NoPool]]

\* lines 164-168 and 183: the locals after the writer connection attempt;
\* a failed attempt falls through to the panic of line 183
WriterOutcome(f, ok, pool) ==
    IF ok
    THEN [panic |-> FALSE, frame |-> [f EXCEPT !.writer = pool, !.reader = pool]]
    ELSE [panic |-> TRUE, frame |-> f]

\* faulty variant: url keeps the writer's URL
ReaderLookupMut(f) == f

\* lines 169-170: the reader lookup overwrites url
ReaderLookup(f) ==
    LET r == EnvVar("DATABASE_READ_URL")
    IN  IF r.ok THEN [f EXCEPT !.url = r.val] ELSE f

\* faulty variant: the new reader pool is never assigned
ReaderOutcomeKeepsWriter(f, ok, pool) == f

\* faulty variant: a failed reader connection loses the writer's clone
ReaderOutcomeDropsReader(f, ok, pool) ==
    IF ok THEN [f EXCEPT !.reader = pool] ELSE [f EXCEPT !.reader = NoPool]

\* lines 172-177: the locals after the reader connection attempt
ReaderOutcome(f, ok, pool) ==
    IF ok THEN [f EXCEPT !.reader = pool] ELSE f

\* faulty variant: the manager is stored without its reader
PublishValueMut(f) == Manager(f.url, NoPool, f.writer)

\* line 180: the value the construction returns, which get_or_init stores
PublishValue(f) == Manager(f.url, f.reader, f.writer)

\* ---------------------------------------------------------------- actions
\* panic!(msg) in task t: the task unwinds; an init future that is unwound
\* gives the cell back uninitialized
Panic(t, msg) ==
    /\ pc' = [pc EXCEPT ![t] = "panicked"]
    /\ err' = [err EXCEPT ![t] = msg]
    /\ initializer' = IF initializer = t THEN NoTask ELSE initializer

\* DATABASE.get_or_init(async { Arc::new(Database::init().await) }).await
GetOrInit(t) ==
    IF CellReady
    THEN /\ pc' = [pc EXCEPT ![t] = "idle"]
         /\ observed' = observed \cup {cell}
         /\ UNCHANGED <<initializer, frame, constructions>>
    ELSE IF CellFree
    THEN /\ initializer' = t
         /\ constructions' = constructions + 1
         /\ frame' = [frame EXCEPT ![t] = [EmptyFrame EXCEPT !.cid = constructions + 1]]
         /\ pc' = [pc EXCEPT ![t] = "resolve"]
         /\ UNCHANGED observed
    ELSE /\ pc' = [pc EXCEPT ![t] = "waiting"]
         /\ UNCHANGED <<initializer, frame, constructions, observed>>

\* a task calls init()
InitCall(t) ==
    /\ pc[t] = "idle"
    /\ calls[t] < MaxCalls
    /\ calls' = [calls EXCEPT ![t] = @ + 1]
    /\ GetOrInit(t)
    /\ UNCHANGED <<env, cell, err, pools, connects, publishedCid, returned>>

\* a task suspended in get_or_init is woken: the value is there, or the
\* running init future is gone and this task's own future is started
Await(t) ==
    /\ pc[t] = "waiting"
    /\ CellReady \/ CellFree
    /\ GetOrInit(t)
    /\ UNCHANGED <<env, cell, err, calls, pools, connects, publishedCid, returned>>

\* Database::init, lines 144-162
Resolve(t) ==
    /\ pc[t] = "resolve"
    /\ LET r == ResolveWriter
       IN  IF ConfigInvalid(r)
           THEN /\ Panic(t, ConfigError)
                /\ UNCHANGED frame
           ELSE /\ frame' = [frame EXCEPT ![t] =
                       [@ EXCEPT !.is_valid_connection = r.is_valid_connection,
                                 !.writer_url = r.writer_url,
                                 !.url = r.url]]
                /\ pc' = [pc EXCEPT ![t] = "connect_writer"]
                /\ UNCHANGED <<err, initializer>>
    /\ UNCHANGED <<env, cell, calls, pools, connects, constructions, publishedCid, observed, returned>>

\* Database::init, lines 164-168 and 183
ConnectWriter(t) ==
    /\ pc[t] = "connect_writer"
    /\ \E ok \in BOOLEAN :
         LET pool == Len(pools) + 1
             out == WriterOutcome(frame[t], ok, pool)
         IN  /\ connects' = Append(connects,
                    [cid |-> frame[t].cid, role |-> "writer", url |-> frame[t].writer_url,
                     ok |-> ok])
             /\ pools' = IF ok THEN Append(pools, frame[t].writer_url) ELSE pools
             /\ IF out.panic
                THEN /\ Panic(t, ConnectionError)
                     /\ UNCHANGED frame
                ELSE /\ frame' = [frame EXCEPT ![t] = out.frame]
                     /\ pc' = [pc EXCEPT ![t] = "read_env"]
                     /\ UNCHANGED <<err, initializer>>
    /\ UNCHANGED <<env, cell, calls, constructions, publishedCid, observed, returned>>

\* Database::init, lines 169-170
ReadEnv(t) ==
    /\ pc[t] = "read_env"
    /\ frame' = [frame EXCEPT ![t] = ReaderLookup(@)]
    /\ pc' = [pc EXCEPT ![t] =
           IF EnvVar("DATABASE_READ_URL").ok THEN "connect_reader" ELSE "publish"]
    /\ UNCHANGED <<env, cell, initializer, err, calls, pools, connects,
                   constructions, publishedCid, observed, returned>>

\* Database::init, lines 172-177
ConnectReader(t) ==
    /\ pc[t] = "connect_reader"
    /\ \E ok \in BOOLEAN :
         LET pool == Len(pools) + 1
         IN  /\ connects' = Append(connects,
                    [cid |-> frame[t].cid, role |-> "reader", url |-> frame[t].url, ok |-> ok])
             /\ pools' = IF ok THEN Append(pools, frame[t].url) ELSE pools
             /\ frame' = [frame EXCEPT ![t] = ReaderOutcome(@, ok, pool)]
    /\ pc' = [pc EXCEPT ![t] = "publish"]
    /\ UNCHANGED <<env, cell, initializer, err, calls, constructions,
                   publishedCid, observed, returned>>

\* line 180 and lines 55-57: the construction returns, get_or_init stores the
\* value and init() returns
Publish(t) ==
    /\ pc[t] = "publish"
    /\ cell' = PublishValue(frame[t])
    /\ publishedCid' = frame[t].cid
    /\ initializer' = IF initializer = t THEN NoTask ELSE initializer
    /\ observed' = observed \cup {cell'}
    /\ pc' = [pc EXCEPT ![t] = "idle"]
    /\ UNCHANGED <<env, err, frame, calls, pools, connects, constructions, returned>>

\* the field an accessor returns
Field(db, a) ==
    IF a = "reader" THEN db.reader ELSE IF a = "writer" THEN db.writer ELSE db.url

\* reader(), writer(), url()
Accessor(t, a) ==
    /\ pc[t] = "idle"
    /\ calls[t] < MaxCalls
    /\ calls' = [calls EXCEPT ![t] = @ + 1]
    /\ LET db == DatabaseGet
       IN  IF db.set
           THEN /\ returned' = [returned EXCEPT ![a] = @ \cup {Field(db, a)}]
                /\ UNCHANGED <<pc, err, initializer>>
           ELSE /\ Panic(t, NotInitialized)
                /\ UNCHANGED returned
    /\ UNCHANGED <<env, cell, frame, pools, connects, constructions, publishedCid, observed>>

Reader(t) == Accessor(t, "reader")
Writer(t) == Accessor(t, "writer")
Url(t) == Accessor(t, "url")

Next ==
    \E t \in Tasks :
        \/ InitCall(t)
        \/ Await(t)
        \/ Resolve(t)
        \/ ConnectWriter(t)
        \/ ReadEnv(t)
        \/ ConnectReader(t)
        \/ Publish(t)
        \/ Reader(t)
        \/ Writer(t)
        \/ Url(t)

Spec == Init /\ [][Next]_vars

\* ------------------------------------------------------- derived notions
\* the positions inside the construction sequence Database::init
ConstructionPcs == {"resolve", "connect_writer", "read_env", "connect_reader", "publish"}

\* the tasks whose construction sequence is in progress
InFlight == {t \in Tasks : pc[t] \in ConstructionPcs}

\* the tasks whose construction sequence ended in a panic
FailedConstructions ==
    {t \in Tasks : pc[t] = "panicked" /\ err[t] \in {ConfigError, ConnectionError}}

\* Uninitialized / Initializing / Ready
Phase ==
    IF cell.set THEN "Ready"
    ELSE IF initializer # NoTask THEN "Initializing"
    ELSE "Uninitialized"

WriterEnvSet == EnvVar("DATABASE_URL").ok \/ EnvVar("DATABASE_WRITE_URL").ok

\* C4: the URL the writer pool is to be opened against
ExpectedWriterUrl ==
    IF EnvVar("DATABASE_WRITE_URL").ok
    THEN EnvVar("DATABASE_WRITE_URL").val
    ELSE EnvVar("DATABASE_URL").val

\* the connection attempts of construction sequence c in role r with outcome ok
Attempts(c, r, ok) ==
    {i \in DOMAIN connects :
        connects[i].cid = c /\ connects[i].role = r /\ connects[i].ok = ok}

\* some init() call has returned
InitReturned == observed # {}

\* -------------------------------------------------------------------- C1
\* C1 as stated: the construction sequence is executed exactly once over the
\* life of the process, and every init() call that returns does so after the
\* manager is published, all observing the same manager.
C1_ExactlyOneConstruction ==
    /\ constructions <= 1
    /\ InitReturned => (constructions = 1 /\ cell.set /\ observed = {cell})

\* C1 amended: at most one construction sequence is in progress at any time
\* and at most one completes; every started sequence is the one in progress,
\* the published one, or one that ended in a panic (after which a waiting or
\* later init() call starts the sequence again); every init() call that
\* returns does so after the manager is published, all observing the same
\* manager.
C1_OneConstructionAtATime ==
    /\ Cardinality(InFlight) <= 1
    /\ constructions =
         Cardinality(FailedConstructions) + Cardinality(InFlight)
           + (IF cell.set THEN 1 ELSE 0)
    /\ InitReturned => (cell.set /\ observed = {cell})

C1_Witness ==
    /\ constructions = 2
    /\ cell.set
    /\ publishedCid = 2
    /\ observed = {cell}
    /\ \E t \in Tasks : err[t] = ConnectionError

\* -------------------------------------------------------------------- C2
\* C2: an accessor called while init() has not completed (never started, or
\* construction in flight) panics with "Database not initialized", returns
\* no value, and that failure differs from the two failures of construction.
C2_AccessorBeforeInitFails ==
    /\ [](~cell.set => \A a \in Accessors : returned[a] = {})
    /\ [](\A t \in Tasks :
            (pc[t] = "panicked" /\ frame[t].cid = 0) => err[t] = NotInitialized)
    /\ [][\A t \in Tasks : \A a \in Accessors :
            (~cell.set /\ Accessor(t, a)) =>
                /\ pc'[t] = "panicked"
                /\ err'[t] = NotInitialized
                /\ err'[t] \notin {ConfigError, ConnectionError}
                /\ returned' = returned]_vars

C2_Witness ==
    \E t, u \in Tasks :
        /\ err[t] = NotInitialized
        /\ pc[u] = "connect_reader"
        /\ frame[u].writer # NoPool
        /\ returned = [a \in Accessors |-> {}]

\* -------------------------------------------------------------------- C3
\* C3: every accessor call that starts after some init() call has returned
\* succeeds and returns the field of the one published manager; in every
\* state an accessor sees either nothing or a manager with url, reader and
\* writer all set.
FullyConstructed(db) ==
    /\ db.url \in Urls
    /\ db.reader \in DOMAIN pools
    /\ db.writer \in DOMAIN pools

C3_AccessorsAfterInit ==
    /\ [](DatabaseGet.set => FullyConstructed(DatabaseGet))
    /\ [](\A a \in Accessors : returned[a] \subseteq {Field(cell, a)})
    /\ [](InitReturned => DatabaseGet.set)
    /\ [][\A t \in Tasks : \A a \in Accessors :
            (InitReturned /\ Accessor(t, a)) =>
                /\ pc'[t] = "idle"
                /\ err'[t] = NoError
                /\ Field(cell, a) \in returned'[a]]_vars

C3_Witness ==
    /\ InitReturned
    /\ \A a \in Accessors : returned[a] = {Field(cell, a)}
    /\ cell.reader # cell.writer

\* -------------------------------------------------------------------- C4
\* C4: the writer pool is opened against DATABASE_WRITE_URL whenever that is
\* set, against DATABASE_URL only when it is not; DATABASE_READ_URL has no
\* influence on the writer's URL.
C4_WriterUrlPrecedence ==
    /\ \A i \in DOMAIN connects :
          connects[i].role = "writer" => connects[i].url = ExpectedWriterUrl
    /\ \A t \in Tasks : frame[t].writer # NoPool => pools[frame[t].writer] = ExpectedWriterUrl
    /\ cell.set => pools[cell.writer] = ExpectedWriterUrl

C4_Witness ==
    /\ cell.set
    /\ EnvVar("DATABASE_URL").ok
    /\ EnvVar("DATABASE_WRITE_URL").ok
    /\ EnvVar("DATABASE_READ_URL").ok
    /\ EnvVar("DATABASE_URL").val # EnvVar("DATABASE_WRITE_URL").val
    /\ EnvVar("DATABASE_READ_URL").val = EnvVar("DATABASE_URL").val
    /\ pools[cell.writer] = EnvVar("DATABASE_WRITE_URL").val
    /\ returned["writer"] = {cell.writer}

\* -------------------------------------------------------------------- C5
\* C5: with neither DATABASE_URL nor DATABASE_WRITE_URL set, construction
\* panics with the configuration error before any connection attempt or pool,
\* also when DATABASE_READ_URL is set, and no manager is published.
C5_NoWriterUrlIsFatal ==
    ~WriterEnvSet =>
        /\ connects = <<>>
        /\ pools = <<>>
        /\ ~cell.set
        /\ publishedCid = 0
        /\ \A t \in Tasks :
              /\ pc[t] \in {"idle", "waiting", "resolve", "panicked"}
              /\ (frame[t].cid # 0 /\ pc[t] # "resolve") =>
                    (pc[t] = "panicked" /\ err[t] = ConfigError)

C5_Witness ==
    /\ ~WriterEnvSet
    /\ EnvVar("DATABASE_READ_URL").ok
    /\ \E t \in Tasks : pc[t] = "panicked" /\ err[t] = ConfigError
    /\ connects = <<>>

\* -------------------------------------------------------------------- C6
\* C6: when the writer connection attempt fails the construction panics with
\* the connection error: it attempts no reader connection, publishes no
\* manager, and the cell it leaves behind makes accessors fail as
\* not-initialized.
WriterAttemptFails ==
    /\ Len(connects') = Len(connects) + 1
    /\ connects'[Len(connects')].role = "writer"
    /\ ~connects'[Len(connects')].ok

C8_ReaderPoolIdentity ==
    cell.set =>
        /\ (cell.reader # cell.writer) <=>
              (EnvVar("DATABASE_READ_URL").ok /\ Attempts(publishedCid, "reader", TRUE) # {})
        /\ cell.reader # cell.writer =>
              pools[cell.reader] = EnvVar("DATABASE_READ_URL").val
        /\ ~EnvVar("DATABASE_READ_URL").ok =>
              (cell.reader = cell.writer /\ Len(pools) = 1)

C8_Witness ==
    /\ cell.set
    /\ EnvVar("DATABASE_READ_URL").ok
    /\ EnvVar("DATABASE_READ_URL").val = ExpectedWriterUrl
    /\ cell.reader # cell.writer
    /\ pools[cell.reader] = pools[cell.writer]
    /\ returned["reader"] = {cell.reader}

\* -------------------------------------------------------------------- C9
\* C9 as stated: a published manager never changes and is never unpublished,
\* the accessors keep returning the same values, and the only transitions
\* are Uninitialized -> Initializing -> Ready.
C9_OnlyForwardTransitions ==
    [][/\ cell.set => cell' = cell
       /\ \A a \in Accessors : Cardinality(returned'[a]) <= 1
       /\ Phase' # Phase =>
            <<Phase, Phase'>> \in {<<"Uninitialized", "Initializing">>,
                                   <<"Initializing", "Ready">>}]_vars

\* C9 amended: a published manager never changes and is never unpublished,
\* the accessors keep returning the same values, Ready is terminal; the
\* transitions are Uninitialized -> Initializing, Initializing -> Ready and,
\* when the construction panics, Initializing -> Uninitialized.
C9_ReadyIsTerminal ==
    [][/\ cell.set => cell' = cell
       /\ \A a \in Accessors : Cardinality(returned'[a]) <= 1
       /\ Phase' # Phase =>
            <<Phase, Phase'>> \in {<<"Uninitialized", "Initializing">>,
                                   <<"Initializing", "Ready">>,
                                   <<"Initializing", "Uninitialized">>}
       /\ (Phase = "Initializing" /\ Phase' = "Uninitialized") =>
            \E t \in Tasks :
                /\ pc[t] \in ConstructionPcs
                /\ pc'[t] = "panicked"
                /\ err'[t] \in {ConfigError, ConnectionError}]_vars

C9_Witness ==
    /\ Phase = "Ready"
    /\ constructions = 2
    /\ \E t \in Tasks : calls[t] = MaxCalls /\ pc[t] = "idle" /\ frame[t].cid = 2
    /\ returned["url"] = {cell.url}

====
